---- MODULE Spec2Model ----
(***************************************************************************)
(* git-emoji-commit (src/cli.js).  The file holds two programs: the        *)
(* CommonJS script of lines 1-120 (flag dispatch, nested prompts) and the  *)
(* module of lines 122-391 (async main with staged-file validation).       *)
(* Spec is the state machine of the second, LegacySpec of the first.       *)
(*                                                                         *)
(* A string is a sequence of characters; a character is a one-character    *)
(* string; a character outside printable ASCII is written by its code      *)
(* point ("U+1F4E6", "U+000B"), but for tab, line feed, form feed and      *)
(* carriage return, written "\t", "\n", "\f", "\r".  A surrogate code unit   *)
(* appears only when it is not part of a pair ("U+D83D").                  *)
(***************************************************************************)
EXTENDS Integers, Sequences, FiniteSets, TLC

VARIABLES
    options,       \* option names commander parsed as set (program.opts())
    args,          \* program.args: the non-option arguments
    pc,            \* where the run is suspended
    stagedFiles,   \* main's stagedFiles once getStagedFiles resolved
    prompts,       \* names of the inquirer questions shown, in order
    answers,       \* answers given so far, by question name
    executed,      \* commands handed to child_process.exec, in order
    listing,       \* <<r>> once git diff exited with result r, <<>> before
    commitExit,    \* <<code>> once git commit exited with code, <<>> before
    console,       \* notices printed, in order
    mainState,     \* the promise of main: pending, fulfilled or rejected
    versionCheck   \* checkVersion: idle, running or done

vars == <<options, args, pc, listing, stagedFiles, prompts, answers,
          executed, commitExit, console, mainState, versionCheck>>

(***************************************************************************)
(* Bounds of the model.                                                    *)
(***************************************************************************)
\* staged listings hold up to this many paths
MaxFiles == 31
\* at most this many type flags on one command line
MaxFlags == 1
\* at most this many empty answers to the message prompt in one run
MaxEmptyAnswers == 2

STAGED_FILES_WARNING_THRESHOLD == 30

(***************************************************************************)
(* String primitives of JavaScript used by the program.                    *)
(***************************************************************************)
\* ECMAScript LineTerminator: what . of a regular expression stops at
LineTerminators == {"\n", "\r", "U+2028", "U+2029"}

\* what String.prototype.trim strips: ECMAScript WhiteSpace (tab, VT, FF,
\* BOM and the space separators) and LineTerminator
WhiteSpace ==
    {"\t", "U+000B", "\f", " ", "U+00A0", "U+1680", "U+2000", "U+2001",
     "U+2002", "U+2003", "U+2004", "U+2005", "U+2006", "U+2007", "U+2008",
     "U+2009", "U+200A", "U+202F", "U+205F", "U+3000", "U+FEFF"}
    \cup LineTerminators

\* String.prototype.startsWith
StartsWith(s, p) ==
    /\ Len(p) <= Len(s)
    /\ SubSeq(s, 1, Len(p)) = p

\* String.prototype.includes
Includes(s, sub) ==
    \E i \in 0..(Len(s) - Len(sub)) : SubSeq(s, i + 1, i + Len(sub)) = sub

\* String.prototype.trim
RECURSIVE TrimStart(_)
TrimStart(s) ==
    IF s # <<>> /\ Head(s) \in WhiteSpace THEN TrimStart(Tail(s)) ELSE s

RECURSIVE TrimEnd(_)
TrimEnd(s) ==
    IF s # <<>> /\ s[Len(s)] \in WhiteSpace
    THEN TrimEnd(SubSeq(s, 1, Len(s) - 1))
    ELSE s

Trim(s) == TrimEnd(TrimStart(s))

\* first index i >= from with s[i] \in cs, or 0
RECURSIVE IndexOfAny(_, _, _)
IndexOfAny(s, cs, from) ==
    IF from > Len(s) THEN 0
    ELSE IF s[from] \in cs THEN from
    ELSE IndexOfAny(s, cs, from + 1)

\* String.prototype.split(sep) for a one-character separator: always at
\* least one piece, so "".split("\n") is [""]
RECURSIVE Split(_, _)
Split(s, sep) ==
    LET i == IndexOfAny(s, {sep}, 1)
    IN  IF i = 0 THEN <<s>>
        ELSE <<SubSeq(s, 1, i - 1)>> \o Split(SubSeq(s, i + 1, Len(s)), sep)

\* Array.prototype.join(sep); `${program.args}` is args.join(",")
RECURSIVE Join(_, _)
Join(parts, sep) ==
    IF parts = <<>> THEN <<>>
    ELSE IF Len(parts) = 1 THEN parts[1]
    ELSE parts[1] \o sep \o Join(Tail(parts), sep)

\* s.replace(/\:(.*)/, ""): the first colon and the rest of its line go
ReplaceColonRest(s) ==
    LET i == IndexOfAny(s, {":"}, 1)
    IN  IF i = 0 THEN s
        ELSE LET j == IndexOfAny(s, LineTerminators, i + 1)
                 k == IF j = 0 THEN Len(s) + 1 ELSE j
             IN  SubSeq(s, 1, i - 1) \o SubSeq(s, k, Len(s))

\* s.replace(/"/, ""): the first double quote goes
ReplaceFirstQuote(s) ==
    LET i == IndexOfAny(s, {"\""}, 1)
    IN  IF i = 0 THEN s
        ELSE SubSeq(s, 1, i - 1) \o SubSeq(s, i + 1, Len(s))

HexUpper ==
    <<"0", "1", "2", "3", "4", "5", "6", "7", "8", "9",
      "A", "B", "C", "D", "E", "F">>

HexLower ==
    <<"0", "1", "2", "3", "4", "5", "6", "7", "8", "9",
      "a", "b", "c", "d", "e", "f">>

\* the character of code n < 32, as this module writes characters
ControlToken(n) ==
    CASE n = 9  -> "\t"
      [] n = 10 -> "\n"
      [] n = 12 -> "\f"
      [] n = 13 -> "\r"
      [] OTHER  -> "U+00" \o HexUpper[(n \div 16) + 1] \o HexUpper[(n % 16) + 1]

\* JSON.stringify's escape of the character of code n < 32
ControlEscape(n) ==
    CASE n = 8  -> <<"\\", "b">>
      [] n = 9  -> <<"\\", "t">>
      [] n = 10 -> <<"\\", "n">>
      [] n = 12 -> <<"\\", "f">>
      [] n = 13 -> <<"\\", "r">>
      [] OTHER  -> <<"\\", "u", "0", "0",
                     HexLower[(n \div 16) + 1], HexLower[(n % 16) + 1]>>

ControlTokens == {ControlToken(n) : n \in 0..31}

\* the code unit U+Dijk (hex digits by index), not part of a pair
SurrogateToken(i, j, k) == "U+D" \o HexUpper[i] \o HexUpper[j] \o HexUpper[k]

LoneSurrogates ==
    {SurrogateToken(i, j, k) : i \in 9..16, j \in 1..16, k \in 1..16}

\* JSON.stringify's QuoteJSONString on one character: quote and backslash
\* get a backslash, control characters their short or \u00xx escape, lone
\* surrogates \udxxx, anything else stays
JsonEscapeChar(c) ==
    IF c \in {"\"", "\\"} THEN <<"\\", c>>
    ELSE IF c \in ControlTokens
    THEN ControlEscape(CHOOSE n \in 0..31 : ControlToken(n) = c)
    ELSE IF c \in LoneSurrogates
    THEN LET d == CHOOSE t \in (9..16) \X (1..16) \X (1..16) :
                      SurrogateToken(t[1], t[2], t[3]) = c
         IN  <<"\\", "u", "d", HexLower[d[1]], HexLower[d[2]], HexLower[d[3]]>>
    ELSE <<c>>

\* JSON.stringify of a string, without its quotes
RECURSIVE JsonEscape(_)
JsonEscape(s) ==
    IF s = <<>> THEN <<>>
    ELSE JsonEscapeChar(Head(s)) \o JsonEscape(Tail(s))

JsonStringify(s) == <<"\"">> \o JsonEscape(s) \o <<"\"">>

\* the elements of a sequence
Range(s) == {s[i] : i \in DOMAIN s}

(***************************************************************************)
(* The commit-type table and the questions (lines 138-219).                *)
(***************************************************************************)
commitTypes ==
    << [key |-> "feat",
        emoji |-> <<"U+1F4E6">>,
        name |-> <<"f", "e", "a", "t">>,
        description |-> <<"n", "e", "w", " ", "f", "e", "a", "t", "u", "r", "e">>],
       [key |-> "style",
        emoji |-> <<"U+1F485">>,
        name |-> <<"s", "t", "y", "l", "e">>,
        description |-> <<"l", "a", "y", "o", "u", "t", " ", "o", "r", " ", "s", "t", "y", "l", "e", " ", "c", "h", "a", "n", "g", "e">>],
       [key |-> "fix",
        emoji |-> <<"U+1F41B">>,
        name |-> <<"f", "i", "x">>,
        description |-> <<"f", "i", "x", " ", "b", "u", "g">>],
       [key |-> "chore",
        emoji |-> <<"U+1F9F9">>,
        name |-> <<"c", "h", "o", "r", "e">>,
        description |-> <<"u", "p", "d", "a", "t", "e", " ", "p", "a", "c", "k", "a", "g", "e", "s", ",", " ", "g", "i", "t", "i", "g", "n", "o", "r", "e", " ", "e", "t", "c", ";", " ", "(", "n", "o", " ", "p", "r", "o", "d", " ", "c", "o", "d", "e", ")">>],
       [key |-> "doc",
        emoji |-> <<"U+1F4D6">>,
        name |-> <<"d", "o", "c">>,
        description |-> <<"d", "o", "c", "u", "m", "e", "n", "t", "a", "t", "i", "o", "n">>],
       [key |-> "refactor",
        emoji |-> <<"U+1F6E0", " ">>,
        name |-> <<"r", "e", "f", "a", "c", "t", "o", "r">>,
        description |-> <<"r", "e", "f", "a", "c", "t", "o", "r", "i", "n", "g">>],
       [key |-> "content",
        emoji |-> <<"U+1F4DD">>,
        name |-> <<"c", "o", "n", "t", "e", "n", "t">>,
        description |-> <<"c", "o", "n", "t", "e", "n", "t", " ", "c", "h", "a", "n", "g", "e", "s">>],
       [key |-> "test",
        emoji |-> <<"U+2705">>,
        name |-> <<"t", "e", "s", "t">>,
        description |-> <<"a", "d", "d", "/", "e", "d", "i", "t", " ", "t", "e", "s", "t", "s", " ", "(", "n", "o", " ", "p", "r", "o", "d", " ", "c", "o", "d", "e", ")">>],
       [key |-> "try",
        emoji |-> <<"U+1F91E">>,
        name |-> <<"t", "r", "y">>,
        description |-> <<"a", "d", "d", " ", "u", "n", "t", "e", "s", "t", "e", "d", " ", "t", "o", " ", "p", "r", "o", "d", "u", "c", "t", "i", "o", "n">>],
       [key |-> "build",
        emoji |-> <<"U+1F680">>,
        name |-> <<"b", "u", "i", "l", "d">>,
        description |-> <<"b", "u", "i", "l", "d", " ", "f", "o", "r", " ", "p", "r", "o", "d", "u", "c", "t", "i", "o", "n">>] >>

\* the choices of the commitType question: `${name} ${emoji}: ${description}`
TypeChoice(type) ==
    type.name \o <<" ">> \o type.emoji \o <<":", " ">> \o type.description

TypeChoices == [i \in DOMAIN commitTypes |-> TypeChoice(commitTypes[i])]

\* the prefix main looks for: `${type.emoji}  ${type.name}`
TypePrefix(type) == type.emoji \o <<" ", " ">> \o type.name

\* the find of main with === in place of startsWith
FindCommitTypeExact(commitMessage) ==
    LET hits == {i \in DOMAIN commitTypes :
                    commitMessage = TypePrefix(commitTypes[i])}
    IN  IF hits = {} THEN 0
        ELSE CHOOSE i \in hits : \A j \in hits : i <= j

\* Object.values(commitTypes).find(...): the first entry whose prefix the
\* message starts with, as its index in the table, or 0 (undefined)
FindCommitType(commitMessage) ==
    LET hits == {i \in DOMAIN commitTypes :
                    StartsWith(commitMessage, TypePrefix(commitTypes[i]))}
    IN  IF hits = {} THEN 0
        ELSE CHOOSE i \in hits : \A j \in hits : i <= j

\* validate of the commitMessage question
ValidateMessage(value) == value # <<>>

\* when of the commitMessage question: there is no commit message
WhenMessage(a) == a = <<>> \/ a[1] = <<>>

\* makeCommit's commitTypeFormated
CommitTypeFormated(commitType) ==
    ReplaceFirstQuote(ReplaceColonRest(commitType))

GIT_COMMIT == <<"g", "i", "t", " ", "c", "o", "m", "m", "i", "t", " ", "-", "m", " ", "\"">>

\* `git commit -m "${commitTypeFormated}: ${commitMessage}"`
CommitCommand(commitTypeFormated, commitMessage) ==
    GIT_COMMIT \o commitTypeFormated \o <<":", " ">> \o commitMessage
    \o <<"\"">>

GIT_DIFF == <<"g", "i", "t", " ", "d", "i", "f", "f", " ", "-", "-", "c", "a", "c", "h", "e", "d", " ", "-", "-", "n", "a", "m", "e", "-", "o", "n", "l", "y">>

NPM_SHOW == <<"n", "p", "m", " ", "s", "h", "o", "w", " ", "g", "i", "t", "-", "e", "m", "o", "j", "i", "-", "c", "o", "m", "m", "i", "t", " ", "v", "e", "r", "s", "i", "o", "n">>

(***************************************************************************)
(* The command line (lines 324-339): the options main declares, and what   *)
(* commander makes of the flags given.                                     *)
(***************************************************************************)
ProgramOptions ==
    << [short |-> "",   long |-> "--learn",    name |-> "learn"],
       [short |-> "-f", long |-> "--feat",     name |-> "feat"],
       [short |-> "-s", long |-> "--style",    name |-> "style"],
       [short |-> "-x", long |-> "--fix",      name |-> "fix"],
       [short |-> "-c", long |-> "--chore",    name |-> "chore"],
       [short |-> "-d", long |-> "--doc",      name |-> "doc"],
       [short |-> "-r", long |-> "--refactor", name |-> "refactor"],
       [short |-> "-t", long |-> "--test",     name |-> "test"],
       [short |-> "-y", long |-> "--try",      name |-> "try"],
       [short |-> "-b", long |-> "--build",    name |-> "build"] >>

\* the flags a declaration table accepts
FlagsOf(table) ==
    {table[i].long : i \in DOMAIN table}
    \cup ({table[i].short : i \in DOMAIN table} \ {""})

\* commander's optionFor: the first declared option a flag names
OptionFor(table, flag) ==
    LET hits == {i \in DOMAIN table :
                    flag = table[i].short \/ flag = table[i].long}
    IN  table[CHOOSE i \in hits : \A j \in hits : i <= j].name

\* program.opts(): the options set by the flags on the command line
ParseOptions(table, flags) == {OptionFor(table, f) : f \in flags}

\* the type flags of main: every declared option but --learn
TypeFlags == {ProgramOptions[i].name : i \in DOMAIN ProgramOptions} \ {"learn"}

\* command lines: at most MaxFlags type flags, with or without --learn
CommandLines(table) ==
    {fs \in SUBSET FlagsOf(table) :
        Cardinality(fs \ {"--learn"}) <= MaxFlags}

\* the message arguments tried: none, an empty one, a plain one, one
\* bearing each type prefix, and one as makeCommit formats it for each type
PlainMessage == <<"w", "i", "p">>

PrefixedMessages ==
    {TypePrefix(commitTypes[i]) \o <<":", " ">> \o PlainMessage :
        i \in DOMAIN commitTypes}

FormattedMessages ==
    {CommitTypeFormated(TypeChoices[i]) \o <<":", " ">> \o PlainMessage :
        i \in DOMAIN commitTypes}

ArgLists ==
    {<<>>, << <<>> >>, <<PlainMessage>>}
    \cup {<<m>> : m \in PrefixedMessages \cup FormattedMessages}

(***************************************************************************)
(* What the spawned commands can answer (exec, lines 226-236: a non-zero   *)
(* exit rejects with an error carrying the exit code).                     *)
(***************************************************************************)
RECURSIVE Digits(_)
Digits(n) ==
    LET d == <<"0", "1", "2", "3", "4", "5", "6", "7", "8", "9">>
    IN  IF n < 10 THEN <<d[n + 1]>>
        ELSE Digits(n \div 10) \o <<d[(n % 10) + 1]>>

NODE_MODULES ==
    <<"n", "o", "d", "e", "_", "m", "o", "d", "u", "l", "e", "s">>

\* the k-th staged path, under node_modules/ or not
StagedPath(k, inNodeModules) ==
    (IF inNodeModules THEN NODE_MODULES \o <<"/">> ELSE <<>>)
    \o <<"f">> \o Digits(k)

\* stdout of git diff --cached --name-only for n staged paths, the nm-th
\* of them under node_modules/ (none when nm = 0): one path per line
RECURSIVE Listing(_, _)
Listing(n, nm) ==
    IF n = 0 THEN <<>>
    ELSE Listing(n - 1, nm) \o StagedPath(n, n = nm) \o <<"\n">>

FileCounts == {0, 1} \cup ((STAGED_FILES_WARNING_THRESHOLD - 1)..MaxFiles)

\* listings with a path whose name is white space only: one named " "
\* is listed first, one named U+00A0 last (printed raw when
\* core.quotePath is false)
BlankNameListings ==
    {<<" ", "\n">> \o Listing(n, 0) :
        n \in {0, STAGED_FILES_WARNING_THRESHOLD}}
    \cup {Listing(STAGED_FILES_WARNING_THRESHOLD, 0) \o <<"U+00A0", "\n">>}

DiffResults ==
    {[code |-> 0, stdout |-> Listing(n, nm)] :
        n \in FileCounts, nm \in {0, 1}}
    \cup {[code |-> 0, stdout |-> s] : s \in BlankNameListings}
    \cup {[code |-> c, stdout |-> <<>>] : c \in {1, 128}}

CommitResults ==
    { [code |-> 0, stdout |-> <<"o", "k">>, stderr |-> <<>>],
      [code |-> 0, stdout |-> <<>>, stderr |-> <<"w">>],
      [code |-> 1, stdout |-> <<>>, stderr |-> <<>>],
      [code |-> 128, stdout |-> <<>>, stderr |-> <<>>] }

\* version.js is not part of the sources: some released version
version == <<"2", ".", "0", ".", "3">>

VersionResults ==
    { [code |-> 0, stdout |-> <<"2", ".", "0", ".", "9", "\n">>],
      [code |-> 0, stdout |-> <<"2", ".", "1", ".", "0", "\n">>],
      [code |-> 1, stdout |-> <<>>] }

(***************************************************************************)
(* getStagedFiles (lines 259-270).                                         *)
(***************************************************************************)
\* whether getStagedFiles throws on this result of git diff
StagedFilesThrows(r) == r.code # 0 /\ r.code # 1

\* what getStagedFiles returns when it does not throw
GetStagedFiles(r) ==
    IF r.code = 0 THEN Split(Trim(r.stdout), "\n") ELSE <<>>

\* stagedFiles.some((file) => file.includes("node_modules"))
HasNodeModules(files) ==
    \E i \in DOMAIN files : Includes(files[i], NODE_MODULES)

\* stagedFiles.length === 0
NothingStaged(files) == Len(files) = 0

\* the threshold test with >= in place of >
HasManyFilesAtLeast(files) == Len(files) >= STAGED_FILES_WARNING_THRESHOLD

\* stagedFiles.length > STAGED_FILES_WARNING_THRESHOLD
HasManyFiles(files) == Len(files) > STAGED_FILES_WARNING_THRESHOLD

(***************************************************************************)
(* checkVersion (lines 238-257).                                           *)
(***************************************************************************)
\* the latest version differs in its major or minor number
UpdateAvailable(stdout) ==
    LET latest  == Split(Trim(stdout), ".")
        current == Split(version, ".")
        Part(v, i) == IF i <= Len(v) THEN <<v[i]>> ELSE <<>>
    IN  Part(latest, 1) # Part(current, 1) \/ Part(latest, 2) # Part(current, 2)

(***************************************************************************)
(* main (lines 323-391), one action per stretch between two awaits.        *)
(***************************************************************************)
Init ==
    /\ \E flags \in CommandLines(ProgramOptions) :
          options = ParseOptions(ProgramOptions, flags)
    /\ args \in ArgLists
    /\ pc = "start"
    /\ listing = <<>>
    /\ stagedFiles = <<>>
    /\ prompts = <<>>
    /\ answers = <<>>
    /\ executed = <<>>
    /\ commitExit = <<>>
    /\ console = <<>>
    /\ mainState = "pending"
    /\ versionCheck = "idle"

\* main returns: its promise is fulfilled
Return(c) ==
    /\ console' = c
    /\ pc' = "done"
    /\ mainState' = "fulfilled"

\* inquirer.prompt is awaited on the question named
Ask(p, question) ==
    /\ prompts' = Append(p, question)
    /\ pc' = question
    /\ UNCHANGED <<console, mainState>>

\* lines 372-390: the message is asked for, or its type, or it looks good
AtCommitMessage(p) ==
    IF WhenMessage(args)
    THEN Ask(p, "commitMessage")
    ELSE IF FindCommitType(args[1]) = 0
         THEN Ask(p, "commitType")
         ELSE prompts' = p /\ Return(Append(console, "looksGood"))

\* lines 364-370
AtManyFiles(files, p) ==
    IF HasManyFiles(files)
    THEN Ask(p, "manyFiles")
    ELSE AtCommitMessage(p)

\* lines 356-362
AtNodeModules(files, p) ==
    IF HasNodeModules(files)
    THEN Ask(p, "nodeModules")
    ELSE AtManyFiles(files, p)

\* lines 339-348: --learn prints the link and returns; otherwise the
\* staged files are listed
Main ==
    /\ pc = "start"
    /\ IF "learn" \in options
       THEN /\ Return(Append(console, "learn"))
            /\ UNCHANGED executed
       ELSE /\ executed' = Append(executed, GIT_DIFF)
            /\ pc' = "getStagedFiles"
            /\ UNCHANGED <<console, mainState>>
    /\ UNCHANGED <<options, args, listing, stagedFiles, prompts, answers,
                   commitExit, versionCheck>>

\* lines 348-370 once git diff exited
StagedFilesListed ==
    /\ pc = "getStagedFiles"
    /\ \E r \in DiffResults :
          /\ listing' = <<r>>
          /\ IF StagedFilesThrows(r)
             THEN /\ pc' = "done"
                  /\ mainState' = "rejected"
                  /\ UNCHANGED <<stagedFiles, prompts, console>>
             ELSE LET files == GetStagedFiles(r)
                  IN  /\ stagedFiles' = files
                      /\ IF NothingStaged(files)
                         THEN /\ Return(Append(console, "nothingStaged"))
                              /\ UNCHANGED prompts
                         ELSE AtNodeModules(files, prompts)
    /\ UNCHANGED <<options, args, answers, executed, commitExit, versionCheck>>

\* the confirmation with its answer ignored
ShouldCancelNever(proceed) == FALSE

\* if (!shouldProceed): a declined confirmation cancels (lines 358, 366)
ShouldCancel(proceed) == ~proceed

\* lines 357-370 once the node_modules confirmation is answered
NodeModulesAnswered ==
    /\ pc = "nodeModules"
    /\ \E proceed \in BOOLEAN :
          /\ answers' = ("nodeModules" :> proceed) @@ answers
          /\ IF ShouldCancel(proceed)
             THEN /\ Return(Append(console, "canceled"))
                  /\ UNCHANGED prompts
             ELSE AtManyFiles(stagedFiles, prompts)
    /\ UNCHANGED <<options, args, listing, stagedFiles, executed, commitExit,
                   versionCheck>>

\* lines 365-372 once the many-files confirmation is answered
ManyFilesAnswered ==
    /\ pc = "manyFiles"
    /\ \E proceed \in BOOLEAN :
          /\ answers' = ("manyFiles" :> proceed) @@ answers
          /\ IF ShouldCancel(proceed)
             THEN /\ Return(Append(console, "canceled"))
                  /\ UNCHANGED prompts
             ELSE AtCommitMessage(prompts)
    /\ UNCHANGED <<options, args, listing, stagedFiles, executed, commitExit,
                   versionCheck>>

\* the number of times x occurs in s
Count(s, x) == Cardinality({i \in DOMAIN s : s[i] = x})

\* the commitMessage question (lines 192-207) is answered: an empty answer
\* is refused and the question stays open, another goes on to commitType
CommitMessageAnswered ==
    /\ pc = "commitMessage"
    /\ \E value \in {<<>>, PlainMessage} :
          IF ValidateMessage(value)
          THEN /\ answers' = ("commitMessage" :> value) @@ answers
               /\ Ask(prompts, "commitType")
          ELSE /\ Count(console, "invalidMessage") < MaxEmptyAnswers
               /\ console' = Append(console, "invalidMessage")
               /\ UNCHANGED <<answers, prompts, pc, mainState>>
    /\ UNCHANGED <<options, args, listing, stagedFiles, executed, commitExit,
                   versionCheck>>

\* the message main hands to makeCommit (lines 377 and 386)
MessageToCommit(a) ==
    IF WhenMessage(args) THEN a["commitMessage"] ELSE args[1]

\* the commitType question (lines 208-218) is answered and makeCommit
\* spawns git commit (lines 272-278)
CommitTypeAnswered ==
    /\ pc = "commitType"
    /\ \E i \in DOMAIN TypeChoices :
          /\ answers' = ("commitType" :> TypeChoices[i]) @@ answers
          /\ executed' = Append(executed,
                CommitCommand(CommitTypeFormated(TypeChoices[i]),
                              MessageToCommit(answers)))
    /\ pc' = "commit"
    /\ UNCHANGED <<options, args, listing, stagedFiles, prompts, commitExit,
                   console, mainState, versionCheck>>

\* makeCommit with the exit code ignored, as in the script of lines 61-66
CommitSucceededAlways(r) == TRUE

\* exec resolves when the command exited with 0 and rejects otherwise, so
\* makeCommit's try block runs to its end exactly then
CommitSucceeded(r) == r.code = 0

\* what makeCommit prints for a result of git commit (lines 279-292)
CommitNotices(r) ==
    IF CommitSucceeded(r)
    THEN (IF Len(r.stdout) > 0 THEN <<"stdout">> ELSE <<>>)
         \o (IF Len(r.stderr) > 0 THEN <<"stderr">> ELSE <<>>)
    ELSE IF r.code = 128 THEN <<"unmerged">>
    ELSE <<"unknownError">>

\* lines 279-295 once git commit exited: on success checkVersion is
\* started, on failure the error is printed; main returns either way
CommitExited ==
    /\ pc = "commit"
    /\ \E r \in CommitResults :
          /\ commitExit' = <<r.code>>
          /\ Return(console \o CommitNotices(r))
          /\ IF CommitSucceeded(r)
             THEN /\ versionCheck' = "running"
                  /\ executed' = Append(executed, NPM_SHOW)
             ELSE UNCHANGED <<versionCheck, executed>>
    /\ UNCHANGED <<options, args, listing, stagedFiles, prompts, answers>>

\* lines 240-256 once npm show exited
VersionChecked ==
    /\ versionCheck = "running"
    /\ \E r \in VersionResults :
          console' =
             IF r.code # 0 THEN Append(console, "versionError")
             ELSE IF UpdateAvailable(r.stdout)
                  THEN Append(console, "updateAvailable")
                  ELSE console
    /\ versionCheck' = "done"
    /\ UNCHANGED <<options, args, pc, listing, stagedFiles, prompts, answers,
                   executed, commitExit, mainState>>

Next ==
    \/ Main
    \/ StagedFilesListed
    \/ NodeModulesAnswered
    \/ ManyFilesAnswered
    \/ CommitMessageAnswered
    \/ CommitTypeAnswered
    \/ CommitExited
    \/ VersionChecked

Spec == Init /\ [][Next]_vars

(***************************************************************************)
(* The script of lines 1-120: options, flag dispatch, nested prompts.      *)
(***************************************************************************)
\* lines 10-17; -r is declared for --release and again for --try
LegacyOptions ==
    << [short |-> "-s", long |-> "--style",   name |-> "style"],
       [short |-> "-b", long |-> "--bug",     name |-> "bug"],
       [short |-> "-i", long |-> "--improve", name |-> "improve"],
       [short |-> "-r", long |-> "--release", name |-> "release"],
       [short |-> "-n", long |-> "--new",     name |-> "new"],
       [short |-> "-d", long |-> "--doc",     name |-> "doc"],
       [short |-> "-r", long |-> "--try",     name |-> "try"],
       [short |-> "-t", long |-> "--test",    name |-> "test"] >>

\* lines 25-34: the choices of the commitType question
LegacyChoices ==
    << <<"U+1F41B", " ", " ", "B", "U", "G", ":", " ", "f", "i", "x", "/", "s", "q", "u", "a", "s", "h", " ", "b", "u", "g">>,
       <<"U+1F4D6", " ", " ", "D", "O", "C", ":", " ", "d", "o", "c", "u", "m", "e", "n", "t", "a", "t", "i", "o", "n">>,
       <<"U+26A1", " ", " ", "I", "M", "P", "R", "O", "V", "E", ":", " ", "r", "e", "f", "a", "c", "t", "o", "r", "i", "n", "g">>,
       <<"U+1F4E6", " ", " ", "N", "E", "W", ":", " ", "a", "d", "d", "i", "t", "i", "o", "n">>,
       <<"U+1F485", " ", " ", "S", "T", "Y", "L", "E", ":", " ", "l", "a", "y", "o", "u", "t", " ", "o", "r", " ", "s", "t", "y", "l", "e", " ", "c", "h", "a", "n", "g", "e">>,
       <<"U+2705", " ", " ", "T", "E", "S", "T", ":", " ", "a", "d", "d", "/", "e", "d", "i", "t", " ", "t", "e", "s", "t", "s">>,
       <<"U+1F91E", " ", " ", "T", "R", "Y", ":", " ", "a", "d", "d", " ", "u", "n", "t", "e", "s", "t", "e", "d", " ", "t", "o", " ", "p", "r", "o", "d", "u", "c", "t", "i", "o", "n">>,
       <<"U+1F680", " ", " ", "R", "E", "L", "E", "A", "S", "E", ":", " ", "r", "e", "l", "e", "a", "s", "e", " ", "f", "e", "a", "t", "u", "r", "e">> >>

\* lines 70-85: the else-if chain, in its order, with the text each branch
\* puts before ${program.args}
LegacyDispatch ==
    << [option |-> "style", prefix |-> <<"U+1F485", " ", " ", "S", "T", "Y", "L", "E", ":", " ">>],
       [option |-> "bug", prefix |-> <<"U+1F41B", " ", " ", "B", "U", "G", ":", " ">>],
       [option |-> "improve", prefix |-> <<"U+26A1", " ", " ", "I", "M", "P", "R", "O", "V", "E", ":", " ">>],
       [option |-> "release", prefix |-> <<"U+1F680", " ", " ", "R", "E", "L", "E", "A", "S", "E", ":", " ">>],
       [option |-> "new", prefix |-> <<"U+1F4E6", " ", " ", "N", "E", "W", ":", " ">>],
       [option |-> "doc", prefix |-> <<"U+1F4D6", " ", " ", "D", "O", "C", ":", " ">>],
       [option |-> "try", prefix |-> <<"U+1F91E", " ", " ", "T", "R", "Y", ":", " ">>],
       [option |-> "test", prefix |-> <<"U+2705", " ", " ", "T", "E", "S", "T", ":", " ">>] >>


\* the first branch of the chain whose option is set, or 0
LegacyBranch(opts) ==
    LET hits == {i \in DOMAIN LegacyDispatch :
                    LegacyDispatch[i].option \in opts}
    IN  IF hits = {} THEN 0
        ELSE CHOOSE i \in hits : \A j \in hits : i <= j

\* git commit -m "<text>"
LegacyCommand(text) == GIT_COMMIT \o text \o <<"\"">>

\* lines 90-91: commitTypeCleaned
CommitTypeCleaned(answer) ==
    ReplaceFirstQuote(ReplaceColonRest(JsonStringify(answer)))

\* `${program.args}`
ArgsText(a) == Join(a, <<",">>)

\* a character outside the BMP, two UTF-16 code units: "U+" and five or
\* six hex digits
IsSupplementary(c) == Len(c) >= 7 /\ SubSeq(c, 1, 2) = "U+"

HexValue(d) == CHOOSE i \in 0..15 : HexUpper[i + 1] = d

\* the number written by the first n hex digits after "U+"
RECURSIVE CodePointUpTo(_, _)
CodePointUpTo(c, n) ==
    IF n = 0 THEN 0
    ELSE 16 * CodePointUpTo(c, n - 1) + HexValue(SubSeq(c, n + 2, n + 2))

CodePoint(c) == CodePointUpTo(c, Len(c) - 2)

\* the code unit n, as this module writes characters
CodeUnitToken(n) ==
    "U+" \o HexUpper[(n \div 4096) + 1] \o HexUpper[((n \div 256) % 16) + 1]
    \o HexUpper[((n \div 16) % 16) + 1] \o HexUpper[(n % 16) + 1]

\* the first code unit of a character outside the BMP
HighSurrogate(c) == CodeUnitToken(55296 + ((CodePoint(c) - 65536) \div 1024))

\* s.slice(0, -1): the last UTF-16 code unit goes, so of a final character
\* outside the BMP the high surrogate stays
DropLast(s) ==
    IF s = <<>> THEN s
    ELSE LET c == s[Len(s)]
         IN  SubSeq(s, 1, Len(s) - 1)
             \o (IF IsSupplementary(c) THEN <<HighSurrogate(c)>> ELSE <<>>)

\* lines 45-51: the versions differ before their last character
LegacyUpdateAvailable(stdout) ==
    DropLast(Trim(version)) # DropLast(Trim(stdout))

LegacyArgLists ==
    {<<>>, << <<>> >>, <<PlainMessage>>, <<<<"f", "i", "x">>, PlainMessage>>}

LegacyInit ==
    /\ \E flags \in CommandLines(LegacyOptions) :
          options = ParseOptions(LegacyOptions, flags)
    /\ args \in LegacyArgLists
    /\ pc = "start"
    /\ listing = <<>>
    /\ stagedFiles = <<>>
    /\ prompts = <<>>
    /\ answers = <<>>
    /\ executed = <<>>
    /\ commitExit = <<>>
    /\ console = <<>>
    /\ mainState = "pending"
    /\ versionCheck = "idle"

\* lines 61-62: makeCommit spawns the command
LegacyMakeCommit(command) ==
    /\ executed' = Append(executed, command)
    /\ pc' = "commit"

\* lines 70-89: the first set flag commits at once, no flag asks the type
LegacyScript ==
    /\ pc = "start"
    /\ LET b == LegacyBranch(options)
       IN  IF b # 0
           THEN /\ LegacyMakeCommit(
                      LegacyCommand(LegacyDispatch[b].prefix \o ArgsText(args)))
                /\ UNCHANGED <<prompts, console>>
           ELSE /\ console' = Append(console, "pickType")
                /\ prompts' = Append(prompts, "commitType")
                /\ pc' = "commitType"
                /\ UNCHANGED executed
    /\ UNCHANGED <<options, args, listing, stagedFiles, answers, commitExit,
                   mainState, versionCheck>>

\* lines 89-119 once the type is chosen: without a message argument the
\* message is asked, with one the commit is made
LegacyTypeAnswered ==
    /\ pc = "commitType"
    /\ \E i \in DOMAIN LegacyChoices :
          /\ answers' = ("commitType" :> LegacyChoices[i]) @@ answers
          /\ IF WhenMessage(args)
             THEN /\ prompts' = Append(prompts, "commitMessage")
                  /\ pc' = "commitMessage"
                  /\ UNCHANGED executed
             ELSE /\ LegacyMakeCommit(
                        LegacyCommand(CommitTypeCleaned(LegacyChoices[i])
                                      \o <<":", " ">> \o ArgsText(args)))
                  /\ UNCHANGED prompts
    /\ UNCHANGED <<options, args, listing, stagedFiles, commitExit, console,
                   mainState, versionCheck>>

\* lines 96-113 once the nested message question is answered
LegacyMessageAnswered ==
    /\ pc = "commitMessage"
    /\ \E value \in {<<>>, PlainMessage} :
          IF ValidateMessage(value)
          THEN /\ answers' = ("commitMessage" :> value) @@ answers
               /\ LegacyMakeCommit(
                     LegacyCommand(CommitTypeCleaned(answers["commitType"])
                                   \o <<":", " ">> \o value))
               /\ UNCHANGED console
          ELSE /\ Count(console, "invalidMessage") < MaxEmptyAnswers
               /\ console' = Append(console, "invalidMessage")
               /\ UNCHANGED <<answers, executed, pc>>
    /\ UNCHANGED <<options, args, listing, stagedFiles, prompts, commitExit,
                   mainState, versionCheck>>

\* lines 62-65 once git commit exited: stdout is printed and checkVersion
\* is started whatever the exit code
LegacyCommitExited ==
    /\ pc = "commit"
    /\ \E r \in CommitResults : commitExit' = <<r.code>>
    /\ console' = Append(console, "stdout")
    /\ executed' = Append(executed, NPM_SHOW)
    /\ versionCheck' = "running"
    /\ pc' = "done"
    /\ UNCHANGED <<options, args, listing, stagedFiles, prompts, answers,
                   mainState>>

\* lines 44-58 once npm show exited
LegacyVersionChecked ==
    /\ versionCheck = "running"
    /\ \E r \in VersionResults :
          console' = IF LegacyUpdateAvailable(r.stdout)
                     THEN Append(console, "updateAvailable")
                     ELSE console
    /\ versionCheck' = "done"
    /\ UNCHANGED <<options, args, pc, listing, stagedFiles, prompts, answers,
                   executed, commitExit, mainState>>

LegacyNext ==
    \/ LegacyScript
    \/ LegacyTypeAnswered
    \/ LegacyMessageAnswered
    \/ LegacyCommitExited
    \/ LegacyVersionChecked

LegacySpec == LegacyInit /\ [][LegacyNext]_vars

(***************************************************************************)
(* Vocabulary of the properties.                                           *)
(***************************************************************************)
\* the git commit commands spawned so far, as indexes into executed
CommitCommands == {i \in DOMAIN executed : StartsWith(executed[i], GIT_COMMIT)}

CommitInvoked == CommitCommands # {}

\* the text between the quotes of a git commit command
CommitText(command) == SubSeq(command, Len(GIT_COMMIT) + 1, Len(command) - 1)

\* the message text of a commit text: what follows its first ": "
MessageText(text) ==
    LET i == IndexOfAny(text, {":"}, 1)
    IN  IF i = 0 THEN text ELSE SubSeq(text, i + 2, Len(text))

Shown(question) == question \in Range(prompts)

Answered(question, value) ==
    question \in DOMAIN answers /\ answers[question] = value

Confirmations == {"nodeModules", "manyFiles"}

Declined == \E q \in Confirmations : Answered(q, FALSE)

\* git diff listed at least one staged path
FilesStaged ==
    /\ listing # <<>>
    /\ listing[1].code = 0
    /\ listing[1].stdout # <<>>

\* the message argument starts with emoji, two spaces and name of an entry
BearsTypePrefix ==
    /\ args # <<>>
    /\ \E i \in DOMAIN commitTypes :
          StartsWith(args[1], commitTypes[i].emoji \o <<" ", " ">>
                              \o commitTypes[i].name)

\* the entry of the commit-type table a type flag names
TypeOfFlag(flag) == CHOOSE i \in DOMAIN commitTypes : commitTypes[i].key = flag

\* the paths git diff listed, one per line of its output
ListedPaths ==
    IF listing = <<>> \/ listing[1].code # 0 THEN <<>>
    ELSE LET lines == Split(listing[1].stdout, "\n")
         IN  SubSeq(lines, 1, Len(lines) - 1)

\* the position of a question among the prompts shown, 0 if not shown
PromptIndex(question) ==
    IF Shown(question)
    THEN CHOOSE i \in DOMAIN prompts : prompts[i] = question
    ELSE 0

(***************************************************************************)
(* C1.  A run given one type flag and a non-empty message argument shows   *)
(* no type-selection prompt, and any commit it spawns carries the type     *)
(* string of that flag.  main declares the flags and never reads them.     *)
(***************************************************************************)
C1_FlagSelectsType ==
    \A f \in TypeFlags :
        (options = {f} /\ ~WhenMessage(args) /\ FilesStaged) =>
            /\ ~Shown("commitType")
            /\ \A i \in CommitCommands :
                  \/ StartsWith(CommitText(executed[i]),
                                TypePrefix(commitTypes[TypeOfFlag(f)]))
                  \/ StartsWith(CommitText(executed[i]),
                        CommitTypeFormated(TypeChoices[TypeOfFlag(f)]))

(***************************************************************************)
(* C2.  No git commit command is ever spawned with an empty message text,  *)
(* and an empty answer to the message prompt leaves the prompt open with   *)
(* nothing spawned.  The flag dispatch of lines 70-85 commits whatever     *)
(* program.args holds, also nothing.                                       *)
(***************************************************************************)
C2_NoEmptyMessage ==
    \A i \in CommitCommands : MessageText(CommitText(executed[i])) # <<>>

(***************************************************************************)
(* C3.  A message argument bearing a recognized type prefix is accepted    *)
(* without re-prompting: neither the type-selection prompt nor the message *)
(* prompt is shown in such a run.                                          *)
(***************************************************************************)
C3_PrefixedNotReprompted ==
    BearsTypePrefix => ~Shown("commitType") /\ ~Shown("commitMessage")

C3_Witness ==
    /\ BearsTypePrefix
    /\ pc = "done"
    /\ Shown("manyFiles")
    /\ Count(console, "looksGood") = 1

(***************************************************************************)
(* C4.  A run that is not --learn, passed the staged-files validation and  *)
(* had no confirmation declined has, once it returned, spawned git commit  *)
(* exactly once.  The run whose message bears a type prefix returns        *)
(* without spawning it.                                                    *)
(***************************************************************************)
C4_ReturnedRunCommitted ==
    ( /\ pc = "done"
      /\ mainState = "fulfilled"
      /\ "learn" \notin options
      /\ FilesStaged
      /\ ~Declined )
    => Cardinality(CommitCommands) = 1

(***************************************************************************)
(* C5.  Once git commit exited, the run ends in success if and only if     *)
(* git commit exited with 0, and in failure if it exited with another      *)
(* code.  makeCommit catches the failure and main is fulfilled: the        *)
(* process exits with 0.                                                   *)
(***************************************************************************)
C5_ExitMirrorsCommit ==
    (commitExit # <<>> /\ FilesStaged) =>
        /\ (mainState = "fulfilled" <=> commitExit = <<0>>)
        /\ (commitExit # <<0>> => mainState = "rejected")

(***************************************************************************)
(* C6.  When git diff reports no staged file (exit 0 with empty output,    *)
(* or exit 1) the nothing-staged notice is printed, no prompt is shown     *)
(* and git commit is not spawned.  "".split("\n") is [""], of length 1.    *)
(***************************************************************************)
C6_NothingStagedStops ==
    ( /\ listing # <<>>
      /\ \/ listing[1].code = 1
         \/ listing[1].code = 0 /\ listing[1].stdout = <<>> )
    => /\ Count(console, "nothingStaged") = 1
       /\ prompts = <<>>
       /\ ~CommitInvoked

(***************************************************************************)
(* C7.  Once a confirmation is declined the run has returned, the declined *)
(* question stays the last prompt shown, git commit is not spawned and the *)
(* version check is not started; and git commit is spawned only when every *)
(* confirmation shown was accepted.                                        *)
(***************************************************************************)
C7_DeclineCancels ==
    /\ Declined =>
          /\ pc = "done"
          /\ Answered(prompts[Len(prompts)], FALSE)
          /\ ~CommitInvoked
          /\ versionCheck = "idle"
          /\ NPM_SHOW \notin Range(executed)
    /\ CommitInvoked =>
          \A q \in Confirmations : Shown(q) => Answered(q, TRUE)

C7_Witness ==
    /\ Answered("nodeModules", TRUE)
    /\ Answered("manyFiles", FALSE)
    /\ Count(console, "canceled") = 1

C8_WitnessAtThreshold ==
    /\ Len(stagedFiles) = 30
    /\ prompts = <<"commitMessage">>

\* 31 paths listed, one of them named " ": main counts 30 and asks nothing
C8_BlankNameMiscounted ==
    /\ Len(ListedPaths) = 31
    /\ Len(stagedFiles) = 30
    /\ prompts = <<"commitMessage">>

(***************************************************************************)
(* C9.  A git commit that exited with 128 has the unmerged-files error     *)
(* printed, one that exited with another non-zero code the unknown-error   *)
(* message; in both cases the run has returned, no version check is        *)
(* started and the type question stays the last prompt shown.  The version *)
(* check is started only after a git commit that exited with 0.            *)
(***************************************************************************)
C9_FailureReportedNoRetry ==
    /\ (commitExit # <<>> /\ commitExit # <<0>>) =>
          /\ IF commitExit = <<128>>
             THEN Count(console, "unmerged") = 1
                  /\ Count(console, "unknownError") = 0
             ELSE Count(console, "unknownError") = 1
                  /\ Count(console, "unmerged") = 0
          /\ pc = "done"
          /\ versionCheck = "idle"
          /\ NPM_SHOW \notin Range(executed)
          /\ prompts[Len(prompts)] = "commitType"
          /\ Cardinality(CommitCommands) = 1
    /\ (versionCheck # "idle" \/ NPM_SHOW \in Range(executed)) =>
          commitExit = <<0>>

C9_Witness ==
    /\ commitExit = <<128>>
    /\ Count(console, "unmerged") = 1

C9_WitnessSuccess ==
    /\ commitExit = <<0>>
    /\ versionCheck = "done"

(***************************************************************************)
(* C10.  The message makeCommit builds from the chosen entry of the table  *)
(* is recognized by main's prefix check as bearing that entry's prefix.    *)
(* makeCommit writes name then emoji, main looks for emoji then name.      *)
(***************************************************************************)
C10_RoundTrip ==
    \A i \in CommitCommands :
        \A t \in DOMAIN commitTypes :
            (FilesStaged /\ Answered("commitType", TypeChoices[t])) =>
                FindCommitType(CommitText(executed[i])) = t

====
